---- MODULE Spec2Model ----
(***************************************************************************)
(* Model of the Sheepdog storage backend                                   *)
(* (src/storage/storage_backend_sheepdog.c).                               *)
(*                                                                         *)
(* A C string is a sequence of one-character strings; the byte after its   *)
(* last character is the terminating NUL.  A pointer into the string is a  *)
(* 1-based index, the null pointer is 0.  Bytes that follow the NUL are    *)
(* not part of the string: a read there is undefined behaviour and sees    *)
(* whatever bytes the heap holds (the "past" part of a memory image).      *)
(***************************************************************************)
EXTENDS Integers, Sequences, FiniteSets, TLC

\* pool:   the pool object (its definition and its volume list)
\* vol:    the volume object handed to the volume operations
\* output: the stdout buffer last handed to a parser
\* past:   the heap bytes after that buffer's NUL
\* oom:    the allocation that failed in the last call (NoOom: none)
\* hiaddr: the highest address the field cursor of the last parse was set to
\* flags:  the flags word of the last call, as the set of its bits
\* cmds:   the commands the last operation ran, with their status
\* ret, err: what the last call returned and the error it reported
\* op:     the last call ("call <parser>": a parser call still to be made)
VARIABLES pool, vol, output, past, oom, hiaddr, flags, cmds, ret, err, op

vars == <<pool, vol, output, past, oom, hiaddr, flags, cmds, ret, err, op>>

(***************************************************************************)
(* Bounds of the model.                                                    *)
(***************************************************************************)
\* number of line fragments a report handed to a parser is made of
MaxLines == 2
\* width of unsigned long long, scaled down from 64 bits
UllBits == 6
\* width of int, scaled down from 32 bits
IntBits == 4
\* calls of RefreshPool are followed while the pool holds at most this many volumes
MaxVols == 1

ULLONG_MAX == 2^UllBits - 1
INT_MAX == 2^(IntBits - 1) - 1

(***************************************************************************)
(* C strings and the libc / util helpers the parsers call.                 *)
(***************************************************************************)
NUL == "NUL"
NULL == 0
NullStr == <<"NULL">>

\* the byte at address i of memory image m; the heap holds a zero byte
\* somewhere after the image
At(m, i) == IF i >= 1 /\ i <= Len(m) THEN m[i] ELSE NUL

\* the memory image of the C string s followed by the heap bytes g
Mem(s, g) == s \o <<NUL>> \o g

RECURSIVE strchr(_, _, _)
strchr(m, p, c) ==
    IF At(m, p) = c THEN p
    ELSE IF At(m, p) = NUL THEN NULL
    ELSE strchr(m, p + 1, c)

STRPREFIX(m, p, pre) == \A k \in 1..Len(pre) : At(m, p + k - 1) = pre[k]

RECURSIVE strnlen(_, _, _)
strnlen(m, p, n) ==
    IF n = 0 \/ At(m, p) = NUL THEN 0 ELSE 1 + strnlen(m, p + 1, n - 1)

\* strndup copies at most n bytes and stops at a NUL
strndup(m, p, n) == [k \in 1..strnlen(m, p, n) |-> At(m, p + k - 1)]

DigitVal == [c \in {"0", "1", "2", "3", "4", "5", "6", "7", "8", "9"} |->
                CASE c = "0" -> 0 [] c = "1" -> 1 [] c = "2" -> 2 [] c = "3" -> 3
                  [] c = "4" -> 4 [] c = "5" -> 5 [] c = "6" -> 6 [] c = "7" -> 7
                  [] c = "8" -> 8 [] c = "9" -> 9]

IsDigit(c) == c \in DOMAIN DigitVal
IsSpace(c) == c \in {" ", "\n"}

RECURSIVE SkipSpace(_, _)
SkipSpace(m, p) == IF IsSpace(At(m, p)) THEN SkipSpace(m, p + 1) ELSE p

\* the run of decimal digits at p: where it ends, its value, and whether the
\* value left the range 0..max (the value then saturates at max + 1)
RECURSIVE ScanDigits(_, _, _, _)
ScanDigits(m, p, acc, max) ==
    IF IsDigit(At(m, p))
    THEN LET v == acc * 10 + DigitVal[At(m, p)]
         IN  ScanDigits(m, p + 1, IF v > max THEN max + 1 ELSE v, max)
    ELSE [end |-> p, val |-> acc]

\* strtol/strtoull: skip white space, convert the digits; no digits leaves
\* the end pointer at s, a value out of range is an error
StrToLong(m, s, max) ==
    LET q == SkipSpace(m, s)
        d == ScanDigits(m, q, 0, max)
    IN  IF d.end = q THEN [ok |-> FALSE, end |-> s, val |-> 0]
        ELSE IF d.val > max THEN [ok |-> FALSE, end |-> d.end, val |-> 0]
        ELSE [ok |-> TRUE, end |-> d.end, val |-> d.val]

virStrToLong_ull(m, s) == StrToLong(m, s, ULLONG_MAX)
virStrToLong_i(m, s) == StrToLong(m, s, INT_MAX)

\* "%d" / "%llu" of a non-negative number
RECURSIVE FormatNat(_)
FormatNat(n) ==
    LET d == CHOOSE c \in DOMAIN DigitVal : DigitVal[c] = n % 10
    IN  IF n < 10 THEN <<d>> ELSE Append(FormatNat(n \div 10), d)

Max(a, b) == IF a >= b THEN a ELSE b

(***************************************************************************)
(* virStorageBackendSheepdogParseNodeInfo                                  *)
(***************************************************************************)
UllSub(a, b) == (a - b) % (ULLONG_MAX + 1)

\* one pass of the do/while loop with the cursor at p; pl is pool->def
RECURSIVE ParseNodeInfoLoop(_, _, _)
ParseNodeInfoLoop(pl, m, p) ==
    LET nl == strchr(m, p, "\n")
        next == nl + 1
    IN  IF nl = NULL THEN [ret |-> -1, pool |-> pl]
        ELSE IF ~STRPREFIX(m, p, <<"T", "o", "t", "a", "l", " ">>)
        THEN ParseNodeInfoLoop(pl, m, next)
        ELSE LET c == virStrToLong_ull(m, p + 6)
                 pl1 == [pl EXCEPT !.capacity = c.val]
                 p2 == c.end + 1
                 a == virStrToLong_ull(m, p2)
             IN  IF ~c.ok THEN [ret |-> -1, pool |-> pl]
                 ELSE IF p2 > next THEN [ret |-> -1, pool |-> pl1]
                 ELSE IF ~a.ok THEN [ret |-> -1, pool |-> pl1]
                 ELSE [ret |-> 0,
                       pool |-> [pl1 EXCEPT !.allocation = a.val,
                                            !.available = UllSub(c.val, a.val)]]

ParseNodeInfo(pl, m) ==
    ParseNodeInfoLoop([pl EXCEPT !.allocation = 0, !.capacity = 0, !.available = 0],
                      m, 1)

(***************************************************************************)
(* virStorageBackendSheepdogParseVdiList                                   *)
(***************************************************************************)
VIR_STORAGE_VOL_FILE == "file"
VIR_STORAGE_VOL_NETWORK == "network"

\* the "skip name" / "lookup name" loop: up to a space or the NUL, a
\* backslash steps over the byte that follows it
\* SkipName with the backslash test forgotten: the name ends at the first
\* space or NUL, escaped or not
SkipName_NoEscape(m, p) ==
    CHOOSE e \in p..(Len(m) + 1) :
        /\ At(m, e) \in {NUL, " "}
        /\ \A j \in p..(e - 1) : At(m, j) \notin {NUL, " "}

RECURSIVE SkipName(_, _)
SkipName(m, p) ==
    IF At(m, p) = NUL \/ At(m, p) = " " THEN p
    ELSE IF At(m, p) = "\\" THEN SkipName(m, p + 2)
    ELSE SkipName(m, p + 1)

\* "%s/%s" of the pool's source name and a volume name
FormatKey(pl, name) == pl.name \o <<"/">> \o name

\* IsSnapshot with the marker test forgotten: only the end of the buffer is skipped
IsSnapshot_NoFilter(m, p) == At(m, p) = NUL

\* "ignore snapshots": the line at p is not marked current
IsSnapshot(m, p) == At(m, p) # "="

\* HasName taking a missing newline for the end of a complete last line
HasName_IgnoresNull(p, next) == next = NULL \/ p + 2 < next

\* "skip space": the line at p has bytes after its marker and the space; with
\* no newline left in the buffer next is NULL and the comparison is false
HasName(p, next) == p + 2 < next

\* a zero-filled virStorageVolDef (VIR_ALLOC)
VolAlloc ==
    [name |-> NullStr, type |-> VIR_STORAGE_VOL_FILE, capacity |-> 0, allocation |-> 0,
     key |-> NullStr, target |-> NullStr, encryption |-> FALSE]

\* no allocation fails
NoOom == [rec |-> 0, site |-> "none"]

virStoragePoolObjClearVols(pl) == [pl EXCEPT !.volumes = <<>>]

\* one pass of the do/while loop with the cursor at p; n counts the
\* current-marked lines reached so far, hi is the highest address the field
\* cursor was set to, o names the allocation that fails (NoOom: none)
RECURSIVE ParseVdiListLoop(_, _, _, _, _, _)
ParseVdiListLoop(pl, m, p, n, hi, o) ==
    LET nl == strchr(m, p, "\n")
        next == IF nl = NULL THEN NULL ELSE nl + 1
    IN  IF IsSnapshot(m, p)
        THEN IF next = NULL THEN [ret |-> 0, pool |-> pl, hi |-> hi]
             ELSE ParseVdiListLoop(pl, m, next, n, hi, o)
        ELSE IF ~HasName(p, next) THEN [ret |-> -1, pool |-> pl, hi |-> hi]
        ELSE LET name == p + 2
                 pe == SkipName(m, name)
                 nm == strndup(m, name, pe - name)
                 id == virStrToLong_i(m, pe)
                 c == virStrToLong_ull(m, id.end + 1)
                 a == virStrToLong_ull(m, c.end + 1)
                 v == [VolAlloc EXCEPT !.name = nm, !.type = VIR_STORAGE_VOL_NETWORK,
                                       !.target = nm, !.key = FormatKey(pl, nm),
                                       !.capacity = c.val, !.allocation = a.val]
             IN  IF o.rec = n + 1 /\ o.site = "alloc"
                 THEN [ret |-> -1, pool |-> virStoragePoolObjClearVols(pl),
                       hi |-> Max(hi, pe)]
                 ELSE IF ~id.ok THEN [ret |-> -1, pool |-> pl, hi |-> Max(hi, pe)]
                 ELSE IF ~c.ok
                 THEN [ret |-> -1, pool |-> pl, hi |-> Max(hi, Max(pe, id.end + 1))]
                 ELSE IF ~a.ok
                 THEN [ret |-> -1, pool |-> pl,
                       hi |-> Max(hi, Max(pe, Max(id.end + 1, c.end + 1)))]
                 ELSE IF o.rec = n + 1 /\ o.site = "realloc"
                 THEN [ret |-> -1, pool |-> virStoragePoolObjClearVols(pl),
                       hi |-> Max(hi, Max(pe, Max(id.end + 1, c.end + 1)))]
                 ELSE ParseVdiListLoop([pl EXCEPT !.volumes = Append(@, v)], m, next,
                                       n + 1,
                                       Max(hi, Max(pe, Max(id.end + 1, c.end + 1))), o)

ParseVdiList(pl, m, o) == ParseVdiListLoop(pl, m, 1, 0, 1, o)

(***************************************************************************)
(* virStorageBackendSheepdogParseVdi                                       *)
(***************************************************************************)
RECURSIVE ParseVdiLoop(_, _, _)
ParseVdiLoop(v, m, p) ==
    LET nl == strchr(m, p, "\n")
        next == IF nl = NULL THEN NULL ELSE nl + 1
    IN  IF IsSnapshot(m, p)
        THEN IF next = NULL THEN [ret |-> -1, vol |-> v, hi |-> 1]
             ELSE ParseVdiLoop(v, m, next)
        ELSE IF ~HasName(p, next) THEN [ret |-> -1, vol |-> v, hi |-> 1]
        ELSE LET pe == SkipName(m, p + 2)
                 id == virStrToLong_i(m, pe)
                 c == virStrToLong_ull(m, id.end + 1)
                 v1 == [v EXCEPT !.capacity = c.val]
                 a == virStrToLong_ull(m, c.end + 1)
             IN  IF ~id.ok THEN [ret |-> -1, vol |-> v, hi |-> pe]
                 ELSE IF ~c.ok THEN [ret |-> -1, vol |-> v, hi |-> Max(pe, id.end + 1)]
                 ELSE IF ~a.ok
                 THEN [ret |-> -1, vol |-> v1,
                       hi |-> Max(pe, Max(id.end + 1, c.end + 1))]
                 ELSE [ret |-> 0, vol |-> [v1 EXCEPT !.allocation = a.val],
                       hi |-> Max(pe, Max(id.end + 1, c.end + 1))]

ParseVdi(v, m) == ParseVdiLoop([v EXCEPT !.allocation = 0, !.capacity = 0], m, 1)

(***************************************************************************)
(* The external tool.  An argument is a sequence of characters; a literal  *)
(* argument is written as one token.  virCommandRun gives 0, or -1 when    *)
(* the tool could not be run or exited with a non-zero status.             *)
(***************************************************************************)
COLLIE == <<"collie">>

\* what a run of the tool can give, its stdout being one of the blobs
RunOutcomes(blobs) ==
    {[status |-> -1, out |-> <<>>]} \cup {[status |-> 0, out |-> b] : b \in blobs}

(***************************************************************************)
(* virStorageBackendSheepdogAddHostArg                                     *)
(***************************************************************************)
HostAddress(pl) ==
    IF pl.nhost > 0 /\ pl.hostname # NullStr THEN pl.hostname ELSE <<"localhost">>

HostPort(pl) ==
    IF pl.nhost > 0 /\ pl.hostport # 0 THEN pl.hostport ELSE 7000

AddHostArg(argv, pl) ==
    argv \o <<(<<"-a">>), HostAddress(pl), (<<"-p">>), FormatNat(HostPort(pl))>>

(***************************************************************************)
(* virStorageBackendSheepdogRefreshPool                                    *)
(* node: the run of "node info", vdi: the run of "vdi list", g: the heap   *)
(* bytes after the output buffer, o: the allocation that fails.            *)
(***************************************************************************)
NodeInfoArgv(pl) == AddHostArg(<<COLLIE, (<<"node">>), (<<"info">>), (<<"-r">>)>>, pl)

VdiListArgv(pl) == <<COLLIE, (<<"vdi">>), (<<"list">>), (<<"-r">>)>>

\* RefreshPoolCall without the "goto cleanup" after a failed node info command
RefreshPoolCall_KeepsGoing(pl, node, vdi, g, o) ==
    LET c1 == [argv |-> NodeInfoArgv(pl), status |-> node.status]
        c2 == [argv |-> VdiListArgv(pl), status |-> vdi.status]
        r2 == ParseVdiList(pl, Mem(vdi.out, g), o)
    IN  IF vdi.status # 0
        THEN [ret |-> vdi.status, pool |-> pl, cmds |-> <<c1, c2>>, output |-> <<>>,
              hi |-> 0]
        ELSE [ret |-> r2.ret, pool |-> r2.pool, cmds |-> <<c1, c2>>,
              output |-> vdi.out, hi |-> r2.hi]

RefreshPoolCall(pl, node, vdi, g, o) ==
    LET c1 == [argv |-> NodeInfoArgv(pl), status |-> node.status]
        r1 == ParseNodeInfo(pl, Mem(node.out, g))
        c2 == [argv |-> VdiListArgv(pl), status |-> vdi.status]
        r2 == ParseVdiList(r1.pool, Mem(vdi.out, g), o)
    IN  IF node.status # 0
        THEN [ret |-> node.status, pool |-> pl, cmds |-> <<c1>>, output |-> <<>>,
              hi |-> 0]
        ELSE IF r1.ret # 0
        THEN [ret |-> r1.ret, pool |-> r1.pool, cmds |-> <<c1>>, output |-> node.out,
              hi |-> 0]
        ELSE IF vdi.status # 0
        THEN [ret |-> vdi.status, pool |-> r1.pool, cmds |-> <<c1, c2>>,
              output |-> node.out, hi |-> 0]
        ELSE [ret |-> r2.ret, pool |-> r2.pool, cmds |-> <<c1, c2>>,
              output |-> vdi.out, hi |-> r2.hi]

(***************************************************************************)
(* virStorageBackendSheepdogRefreshVol                                     *)
(***************************************************************************)
VIR_ERR_OK == "none"
VIR_ERR_NO_MEMORY == "NoMemory"
VIR_ERR_CONFIG_UNSUPPORTED == "UnsupportedConfiguration"
VIR_ERR_INVALID_ARG == "InvalidOption"

VdiListOneArgv(pl, v) ==
    AddHostArg(<<COLLIE, (<<"vdi">>), (<<"list">>), v.name, (<<"-r">>)>>, pl)

RefreshVolCall(pl, v, run, g, o) ==
    LET c1 == [argv |-> VdiListOneArgv(pl, v), status |-> run.status]
        r == ParseVdi(v, Mem(run.out, g))
        v1 == [r.vol EXCEPT !.type = VIR_STORAGE_VOL_NETWORK]
        v2 == [v1 EXCEPT !.key = FormatKey(pl, v.name)]
    IN  IF run.status < 0
        THEN [ret |-> run.status, vol |-> v, cmds |-> <<c1>>, err |-> VIR_ERR_OK,
              output |-> <<>>, hi |-> 0]
        ELSE IF r.ret < 0
        THEN [ret |-> r.ret, vol |-> r.vol, cmds |-> <<c1>>, err |-> VIR_ERR_OK,
              output |-> run.out, hi |-> r.hi]
        ELSE IF o.site = "key"
        THEN [ret |-> r.ret, vol |-> [v1 EXCEPT !.key = NullStr], cmds |-> <<c1>>,
              err |-> VIR_ERR_NO_MEMORY, output |-> run.out, hi |-> r.hi]
        ELSE IF o.site = "target"
        THEN [ret |-> r.ret, vol |-> [v2 EXCEPT !.target = NullStr], cmds |-> <<c1>>,
              err |-> VIR_ERR_NO_MEMORY, output |-> run.out, hi |-> r.hi]
        ELSE [ret |-> r.ret, vol |-> [v2 EXCEPT !.target = v.name], cmds |-> <<c1>>,
              err |-> VIR_ERR_OK, output |-> run.out, hi |-> r.hi]

(***************************************************************************)
(* virStorageBackendSheepdogCreateVol                                      *)
(***************************************************************************)
VdiCreateArgv(pl, v) ==
    AddHostArg(<<COLLIE, (<<"vdi">>), (<<"create">>), v.name, FormatNat(v.capacity)>>, pl)

\* CreateVolCall without the encryption check
CreateVolCall_NoEncryptionCheck(pl, v, create, list, g, o) ==
    [RefreshVolCall(pl, v, list, g, o) EXCEPT
        !.ret = create.status,
        !.cmds = <<[argv |-> VdiCreateArgv(pl, v), status |-> create.status]>> \o @]

\* CreateVolCall returning what the follow-up refresh returned
CreateVolCall_ReturnsRefresh(pl, v, create, list, g, o) ==
    IF v.encryption
    THEN [ret |-> -1, vol |-> v, cmds |-> <<>>, err |-> VIR_ERR_CONFIG_UNSUPPORTED,
          output |-> <<>>, hi |-> 0]
    ELSE [RefreshVolCall(pl, v, list, g, o) EXCEPT
            !.cmds = <<[argv |-> VdiCreateArgv(pl, v), status |-> create.status]>> \o @]

CreateVolCall(pl, v, create, list, g, o) ==
    LET c1 == [argv |-> VdiCreateArgv(pl, v), status |-> create.status]
    IN  IF v.encryption
        THEN [ret |-> -1, vol |-> v, cmds |-> <<>>, err |-> VIR_ERR_CONFIG_UNSUPPORTED,
              output |-> <<>>, hi |-> 0]
        ELSE [RefreshVolCall(pl, v, list, g, o) EXCEPT !.ret = create.status,
                                                       !.cmds = <<c1>> \o @]

(***************************************************************************)
(* virStorageBackendSheepdogDeleteVol, virStorageBackendSheepdogResizeVol  *)
(***************************************************************************)
\* virCheckFlags(supported, retval): any flag outside supported is refused
virCheckFlags(f, supported) == \A b \in f : b \in supported

VdiDeleteArgv(pl, v) == AddHostArg(<<COLLIE, (<<"vdi">>), (<<"delete">>), v.name>>, pl)

DeleteVolCall(pl, v, f, run) ==
    IF ~virCheckFlags(f, {})
    THEN [ret |-> -1, cmds |-> <<>>, err |-> VIR_ERR_INVALID_ARG]
    ELSE [ret |-> run.status,
          cmds |-> <<[argv |-> VdiDeleteArgv(pl, v), status |-> run.status]>>,
          err |-> VIR_ERR_OK]

VdiResizeArgv(pl, v, capacity) ==
    AddHostArg(<<COLLIE, (<<"vdi">>), (<<"resize">>), v.name, FormatNat(capacity)>>, pl)

ResizeVolCall(pl, v, capacity, f, run) ==
    IF ~virCheckFlags(f, {})
    THEN [ret |-> -1, cmds |-> <<>>, err |-> VIR_ERR_INVALID_ARG]
    ELSE [ret |-> run.status,
          cmds |-> <<[argv |-> VdiResizeArgv(pl, v, capacity), status |-> run.status]>>,
          err |-> VIR_ERR_OK]

(***************************************************************************)
(* Reports.  A report is a concatenation of line fragments.                *)
(***************************************************************************)
\* "Total 5 2 0%\n", "0 5 2 0%\n", "Total 2 5 0%\n", "Total 5\n", "Total 5 2",
\* "Total x 2\n", "Total 99 2\n", "3 1\n", "Total \n"
NodeLines ==
    { <<"T", "o", "t", "a", "l", " ", "5", " ", "2", " ", "0", "%", "\n">>,
      <<"0", " ", "5", " ", "2", " ", "0", "%", "\n">>,
      <<"T", "o", "t", "a", "l", " ", "2", " ", "5", " ", "0", "%", "\n">>,
      <<"T", "o", "t", "a", "l", " ", "5", "\n">>,
      <<"T", "o", "t", "a", "l", " ", "5", " ", "2">>,
      <<"T", "o", "t", "a", "l", " ", "x", " ", "2", "\n">>,
      <<"T", "o", "t", "a", "l", " ", "9", "9", " ", "2", "\n">>,
      <<"3", " ", "1", "\n">>,
      <<"T", "o", "t", "a", "l", " ", "\n">> }

\* well-formed lines of a vdi list: "= a 1 5 2 0\n", "s a 1 5 0 0\n",
\* "= b 2 3 1 0\n", "= a\ b 1 5 2 0\n" (an escaped space in the name),
\* "= a\\ 1 5 2 0\n" (an escaped backslash at the end of the name)
VdiCurA == <<"=", " ", "a", " ", "1", " ", "5", " ", "2", " ", "0", "\n">>
VdiSnapA == <<"s", " ", "a", " ", "1", " ", "5", " ", "0", " ", "0", "\n">>
VdiCurB == <<"=", " ", "b", " ", "2", " ", "3", " ", "1", " ", "0", "\n">>
VdiCurEsc == <<"=", " ", "a", "\\", " ", "b", " ", "1", " ", "5", " ", "2", " ", "0", "\n">>

VdiCurBs == <<"=", " ", "a", "\\", "\\", " ", "1", " ", "5", " ", "2", " ", "0", "\n">>

WellFormedVdiLines == {VdiCurA, VdiSnapA, VdiCurB, VdiCurEsc, VdiCurBs}

\* a current-marked line that lacks its allocation: "= a 1 5\n"
VdiNoAlloc == <<"=", " ", "a", " ", "1", " ", "5", "\n">>
\* a current-marked line with a malformed integer: "= a 1 x 2\n"
VdiBadInt == <<"=", " ", "a", " ", "1", " ", "x", " ", "2", "\n">>
\* a current-marked line with no separator after the name: "= a\n"
VdiNoSep == <<"=", " ", "a", "\n">>
\* a current-marked line that is not terminated: "= a 1 5 2"
VdiNoNl == <<"=", " ", "a", " ", "1", " ", "5", " ", "2">>

\* current-marked lines with a missing field, a malformed integer or a
\* missing separator
BadVdiLines == {VdiNoAlloc, VdiBadInt, VdiNoSep}

\* the other fragments: "= a 1 99 2\n" (out of range), "2\n", "\", "= a 1 5",
\* "s a 1 5 0" (a snapshot line that is not terminated)
VdiLines ==
    WellFormedVdiLines \cup BadVdiLines \cup
    { VdiNoNl,
      <<"=", " ", "a", " ", "1", " ", "9", "9", " ", "2", "\n">>,
      <<"2", "\n">>,
      <<"\\">>,
      <<"=", " ", "a", " ", "1", " ", "5">>,
      <<"s", " ", "a", " ", "1", " ", "5", " ", "0">> }

\* the concatenations of at most n fragments
RECURSIVE Blobs(_, _)
Blobs(lines, n) ==
    IF n = 0 THEN {<<>>}
    ELSE LET shorter == Blobs(lines, n - 1)
         IN  shorter \cup {b \o l : b \in shorter, l \in lines}

NodeBlobs == Blobs(NodeLines, MaxLines)
VdiBlobs == Blobs(VdiLines, MaxLines)

\* heap bytes after a buffer: a zero byte at once, or "3 1" first
Garbage == {<<>>, <<"3", " ", "1">>}

\* the allocation that fails in ParseVdiList: none, or that of record rec at
\* VIR_ALLOC/strndup/virAsprintf ("alloc") or at VIR_REALLOC_N ("realloc")
Ooms == {NoOom} \cup {[rec |-> k, site |-> x] : k \in 1..MaxLines, x \in {"alloc", "realloc"}}

\* the virAsprintf that fails in RefreshVol: none, that of the key or of the target
VolOoms == {NoOom, [rec |-> 1, site |-> "key"], [rec |-> 1, site |-> "target"]}

(***************************************************************************)
(* The pool and the volume as constructed by the caller.                   *)
(***************************************************************************)
\* source.nhost, source.hosts[0].name, source.hosts[0].port
HostConfigs ==
    { [nhost |-> 0, hostname |-> NullStr, hostport |-> 0],
      [nhost |-> 1, hostname |-> <<"h">>, hostport |-> 7001],
      [nhost |-> 1, hostname |-> <<"h">>, hostport |-> 0],
      [nhost |-> 1, hostname |-> NullStr, hostport |-> 7001],
      [nhost |-> 1, hostname |-> NullStr, hostport |-> 0] }

NewPool(h) ==
    [name |-> <<"p">>, nhost |-> h.nhost, hostname |-> h.hostname, hostport |-> h.hostport,
     capacity |-> 0, allocation |-> 0, available |-> 0, volumes |-> <<>>]

DefaultPool == NewPool([nhost |-> 0, hostname |-> NullStr, hostport |-> 0])

\* a volume definition handed to CreateVol, or a volume of the pool
NewVol(enc, cap) == [VolAlloc EXCEPT !.name = <<"a">>, !.encryption = enc, !.capacity = cap]

ListedVol(pl) ==
    [VolAlloc EXCEPT !.name = <<"a">>, !.type = VIR_STORAGE_VOL_NETWORK, !.capacity = 5,
                     !.allocation = 2, !.key = FormatKey(pl, <<"a">>), !.target = <<"a">>]

(***************************************************************************)
(* The tool's reports in the operations, and the environment of a call.    *)
(***************************************************************************)
\* stdout of "node info": "Total 5 2 0%\n" after a node line, "Total 2 5 0%\n",
\* "Total 5\n", and an empty report
NodeReports ==
    { <<"0", " ", "5", " ", "2", " ", "0", "%", "\n",
        "T", "o", "t", "a", "l", " ", "5", " ", "2", " ", "0", "%", "\n">>,
      <<"T", "o", "t", "a", "l", " ", "2", " ", "5", " ", "0", "%", "\n">>,
      <<"T", "o", "t", "a", "l", " ", "5", "\n">>,
      <<>> }

\* stdout of "vdi list"
VdiReports ==
    { <<>>, VdiSnapA \o VdiCurA, VdiCurB \o VdiNoAlloc, VdiCurA \o <<"=", " ", "b", " ", "2">> }

\* stdout of "vdi list <name>"
VolReports == { <<>>, VdiSnapA \o VdiCurA, VdiSnapA, VdiNoAlloc, VdiCurB \o <<"2">> }

\* heap bytes and failing allocation of one call
PoolEnvs ==
    { [g |-> <<>>, o |-> NoOom], [g |-> <<"3", " ", "1">>, o |-> NoOom],
      [g |-> <<>>, o |-> [rec |-> 1, site |-> "alloc"]],
      [g |-> <<>>, o |-> [rec |-> 1, site |-> "realloc"]] }

VolEnvs == {[g |-> g, o |-> NoOom] : g \in Garbage} \cup
           {[g |-> <<>>, o |-> o] : o \in VolOoms}

\* flag words: 0 and one with a bit set
FlagWords == {{}, {1}}

(***************************************************************************)
(* Initial states.                                                         *)
(***************************************************************************)
InitCommon ==
    /\ cmds = <<>>
    /\ ret = 0
    /\ err = VIR_ERR_OK
    /\ hiaddr = 0
    /\ flags = {}

\* a pool and a volume object as the storage driver hands them to the backend
InitPool ==
    /\ InitCommon
    /\ op = "init"
    /\ pool \in {NewPool(h) : h \in HostConfigs}
    /\ vol = NewVol(FALSE, 0)
    /\ output = <<>>
    /\ past = <<>>
    /\ oom = NoOom

InitVol ==
    /\ InitCommon
    /\ op = "init"
    /\ pool \in {NewPool(h) : h \in HostConfigs}
    /\ vol \in {NewVol(e, c) : e \in BOOLEAN, c \in {0, 5}} \cup {ListedVol(DefaultPool)}
    /\ output = <<>>
    /\ past = <<>>
    /\ oom = NoOom

\* a pool that was refreshed before: "Total 5 2", one volume
RefreshedPool ==
    [DefaultPool EXCEPT !.capacity = 5, !.allocation = 2, !.available = 3,
                        !.volumes = <<ListedVol(DefaultPool)>>]

\* one call of one parser on one buffer
InitParse ==
    /\ InitCommon
    /\ \/ /\ op = "call ParseNodeInfo"
          /\ output \in NodeBlobs
          /\ pool \in {DefaultPool, RefreshedPool}
          /\ vol = NewVol(FALSE, 0)
          /\ past = <<>>
          /\ oom = NoOom
       \/ /\ op = "call ParseVdiList"
          /\ output \in VdiBlobs
          /\ pool \in {DefaultPool, RefreshedPool}
          /\ vol = NewVol(FALSE, 0)
          /\ past \in Garbage
          /\ oom \in Ooms
       \/ /\ op = "call ParseVdi"
          /\ output \in VdiBlobs
          /\ pool = DefaultPool
          /\ vol \in {NewVol(FALSE, 5), ListedVol(DefaultPool)}
          /\ past \in Garbage
          /\ oom = NoOom

(***************************************************************************)
(* Actions: one per entry point.                                           *)
(***************************************************************************)
CallParseNodeInfo ==
    /\ op = "call ParseNodeInfo"
    /\ \E r \in {ParseNodeInfo(pool, Mem(output, past))} :
           /\ pool' = r.pool
           /\ ret' = r.ret
    /\ op' = "ParseNodeInfo"
    /\ UNCHANGED <<vol, output, past, oom, hiaddr, flags, cmds, err>>

CallParseVdiList ==
    /\ op = "call ParseVdiList"
    /\ \E r \in {ParseVdiList(pool, Mem(output, past), oom)} :
           /\ pool' = r.pool
           /\ ret' = r.ret
           /\ hiaddr' = r.hi
    /\ op' = "ParseVdiList"
    /\ UNCHANGED <<vol, output, past, oom, flags, cmds, err>>

CallParseVdi ==
    /\ op = "call ParseVdi"
    /\ \E r \in {ParseVdi(vol, Mem(output, past))} :
           /\ vol' = r.vol
           /\ ret' = r.ret
           /\ hiaddr' = r.hi
    /\ op' = "ParseVdi"
    /\ UNCHANGED <<pool, output, past, oom, flags, cmds, err>>

IsOp == op \notin {"call ParseNodeInfo", "call ParseVdiList", "call ParseVdi"}

RefreshPool ==
    /\ IsOp
    /\ Len(pool.volumes) <= MaxVols
    /\ \E node \in RunOutcomes(NodeReports) :
         \E vdi \in IF node.status = 0 THEN RunOutcomes(VdiReports)
                    ELSE {[status |-> -1, out |-> <<>>]} :
           \E e \in IF vdi.status = 0 THEN PoolEnvs ELSE {[g |-> <<>>, o |-> NoOom]} :
             \E r \in {RefreshPoolCall(pool, node, vdi, e.g, e.o)} :
                 /\ pool' = r.pool
                 /\ ret' = r.ret
                 /\ cmds' = r.cmds
                 /\ output' = r.output
                 /\ hiaddr' = r.hi
                 /\ past' = e.g
                 /\ oom' = e.o
    /\ err' = VIR_ERR_OK
    /\ flags' = {}
    /\ op' = "RefreshPool"
    /\ UNCHANGED vol

RefreshVol ==
    /\ IsOp
    /\ \E run \in RunOutcomes(VolReports) :
         \E e \in IF run.status = 0 THEN VolEnvs ELSE {[g |-> <<>>, o |-> NoOom]} :
           \E r \in {RefreshVolCall(pool, vol, run, e.g, e.o)} :
               /\ vol' = r.vol
               /\ ret' = r.ret
               /\ cmds' = r.cmds
               /\ err' = r.err
               /\ output' = r.output
               /\ hiaddr' = r.hi
               /\ past' = e.g
               /\ oom' = e.o
    /\ flags' = {}
    /\ op' = "RefreshVol"
    /\ UNCHANGED pool

CreateVol ==
    /\ IsOp
    /\ \E create \in RunOutcomes({<<>>}) :
         \E list \in IF vol.encryption THEN {[status |-> -1, out |-> <<>>]}
                     ELSE RunOutcomes(VolReports) :
           \E e \in IF list.status = 0 THEN VolEnvs ELSE {[g |-> <<>>, o |-> NoOom]} :
             \E r \in {CreateVolCall(pool, vol, create, list, e.g, e.o)} :
                 /\ vol' = r.vol
                 /\ ret' = r.ret
                 /\ cmds' = r.cmds
                 /\ err' = r.err
                 /\ output' = r.output
                 /\ hiaddr' = r.hi
                 /\ past' = e.g
                 /\ oom' = e.o
    /\ flags' = {}
    /\ op' = "CreateVol"
    /\ UNCHANGED pool

DeleteVol ==
    /\ IsOp
    /\ \E f \in FlagWords :
         \E run \in RunOutcomes({<<>>}) :
           \E r \in {DeleteVolCall(pool, vol, f, run)} :
               /\ ret' = r.ret
               /\ cmds' = r.cmds
               /\ err' = r.err
               /\ flags' = f
    /\ op' = "DeleteVol"
    /\ output' = <<>>
    /\ hiaddr' = 0
    /\ past' = <<>>
    /\ oom' = NoOom
    /\ UNCHANGED <<pool, vol>>

ResizeVol ==
    /\ IsOp
    /\ \E capacity \in {5, 7} :
         \E f \in FlagWords :
           \E run \in RunOutcomes({<<>>}) :
             \E r \in {ResizeVolCall(pool, vol, capacity, f, run)} :
                 /\ ret' = r.ret
                 /\ cmds' = r.cmds
                 /\ err' = r.err
                 /\ flags' = f
    /\ op' = "ResizeVol"
    /\ output' = <<>>
    /\ hiaddr' = 0
    /\ past' = <<>>
    /\ oom' = NoOom
    /\ UNCHANGED <<pool, vol>>

(***************************************************************************)
(* Specifications.                                                         *)
(***************************************************************************)
NextParse == CallParseNodeInfo \/ CallParseVdiList \/ CallParseVdi
NextPool == RefreshPool
NextVol == CreateVol \/ RefreshVol \/ DeleteVol \/ ResizeVol

\* one parser applied to one buffer
SpecParse == InitParse /\ [][NextParse]_vars
\* the pool operation, called again and again on one pool
SpecPool == InitPool /\ [][NextPool]_vars
\* the volume operations, called again and again on one volume
SpecVol == InitVol /\ [][NextVol]_vars

Init == InitVol
Next == RefreshPool \/ CreateVol \/ RefreshVol \/ DeleteVol \/ ResizeVol
Spec == Init /\ [][Next]_vars

(***************************************************************************)
(* Properties.                                                             *)
(***************************************************************************)
\* the addresses at which the lines of the string s start
LineStarts(s) == {i \in 1..Len(s) : i = 1 \/ s[i - 1] = "\n"}

\* the line of s that starts at i ends in a newline
Terminated(s, i) == \E j \in i..Len(s) : s[j] = "\n"

\* the starts of the current-marked lines of s
CurrentLines(s) == {i \in LineStarts(s) : s[i] = "="}

\* reports made of well-formed lines and of at least one current-marked line
\* with a missing field, a malformed integer or a missing separator
BadVdiReports ==
    Blobs(WellFormedVdiLines \cup BadVdiLines, MaxLines) \ Blobs(WellFormedVdiLines, MaxLines)

\* C1: a volume-list report in which a current-marked line has a missing
\* field, a malformed integer or a missing separator makes ParseVdiList fail
\* and leaves the volume collection empty; stated for a pool that held no
\* volume before the call.
C1_ParseVdiListAllOrNothing ==
    [][(op' = "ParseVdiList" /\ output \in BadVdiReports /\ pool.volumes = <<>>)
          => (ret' = -1 /\ pool'.volumes = <<>>)]_vars

\* C2: when RefreshPool returns failure, the pool's capacity, allocation,
\* available and volume collection are what they were before the call.
C2_RefreshPoolFailureLeavesPool ==
    [][(op' = "RefreshPool" /\ ret' # 0)
          => /\ pool'.capacity = pool.capacity
             /\ pool'.allocation = pool.allocation
             /\ pool'.available = pool.available
             /\ pool'.volumes = pool.volumes]_vars

\* the argument vector ends with "-a <address> -p <port>" of the pool's host
EndsWithHostArgs(argv, pl) ==
    /\ Len(argv) >= 4
    /\ SubSeq(argv, Len(argv) - 3, Len(argv))
         = <<(<<"-a">>), HostAddress(pl), (<<"-p">>), FormatNat(HostPort(pl))>>

\* C3: every command an operation runs ends with the host target flags.
C3_EveryCommandHasHostArgs ==
    \A i \in DOMAIN cmds : EndsWithHostArgs(cmds[i].argv, pool)

\* the records ParseVdiList makes of a report, read into an empty collection
RecordsOf(pl, s, g) == ParseVdiList(virStoragePoolObjClearVols(pl), Mem(s, g), NoOom).pool.volumes

\* C4: after a successful RefreshPool the volume collection is exactly the
\* records parsed from that call's volume-list report, in parse order.
C4_RefreshPoolReplacesVolumes ==
    (op = "RefreshPool" /\ ret = 0) => pool.volumes = RecordsOf(pool, output, past)

\* C5: after any call of the aggregate-capacity parser or of RefreshPool,
\* successful or failed, available = capacity - allocation (unsigned).
C5_AvailableIsCapacityMinusAllocation ==
    pool.available = UllSub(pool.capacity, pool.allocation)

IsNodeInfo(c) == c.argv[2] = <<"node">> /\ c.argv[3] = <<"info">>
IsVdiList(c) == c.argv[2] = <<"vdi">> /\ c.argv[3] = <<"list">>

\* C6: RefreshPool runs node info first and vdi list only after it; a call
\* whose node info command failed runs no vdi list and leaves the pool
\* (capacity, allocation, available, volumes) as it was.
C6_NodeInfoBeforeVdiList ==
    [][op' = "RefreshPool"
          => /\ Len(cmds') >= 1
             /\ IsNodeInfo(cmds'[1])
             /\ \A i \in DOMAIN cmds' : IsVdiList(cmds'[i]) => i = 2
             /\ cmds'[1].status # 0
                  => /\ \A i \in DOMAIN cmds' : ~IsVdiList(cmds'[i])
                     /\ pool' = pool]_vars

\* a RefreshPool whose node info command failed, on a pool that holds a
\* capacity and a volume from an earlier call
C6_Witness ==
    /\ op = "RefreshPool"
    /\ Len(cmds) = 1
    /\ cmds[1].status # 0
    /\ pool.capacity # 0
    /\ pool.volumes # <<>>

\* the records a call appended to the collection
NewRecords(old, new) ==
    IF Len(new) >= Len(old) THEN SubSeq(new, Len(old) + 1, Len(new)) ELSE <<>>

\* the k-th smallest element of a set of numbers
Nth(S, k) == CHOOSE i \in S : Cardinality({j \in S : j < i}) = k - 1

\* C7: the k-th record ParseVdiList produces has its name at the k-th
\* current-marked line of the report, so there are no more records than
\* current-marked lines and no record for a line with another marker; a
\* successful parse produces one record per current-marked line, and a report
\* of well-formed lines parses successfully.
C7_SnapshotFiltering ==
    [][op' = "ParseVdiList"
          => LET new == NewRecords(pool.volumes, pool'.volumes)
                 cur == CurrentLines(output)
             IN  /\ Len(new) <= Cardinality(cur)
                 /\ \A k \in 1..Len(new) :
                      \A j \in 1..Len(new[k].name) :
                        new[k].name[j] = At(output, Nth(cur, k) + 1 + j)
                 /\ ret' = 0 => Len(new) = Cardinality(cur)
                 /\ (output \in Blobs(WellFormedVdiLines, MaxLines) /\ oom = NoOom)
                      => ret' = 0]_vars

\* a snapshot line and a current line of the same name give one record
C7_Witness ==
    /\ op = "ParseVdiList"
    /\ output = VdiSnapA \o VdiCurA
    /\ ret = 0
    /\ Len(pool.volumes) = 1
    /\ pool.volumes[1].name = <<"a">>

\* C8: CreateVol on a volume with encryption fails with
\* UnsupportedConfiguration, DeleteVol and ResizeVol with a non-zero flags
\* word fail with InvalidOption; in each case no command is run and the pool
\* and the volume are unchanged.
C8_RejectedUpFront ==
    [][/\ (op' = "CreateVol" /\ vol.encryption)
            => /\ ret' = -1
               /\ err' = VIR_ERR_CONFIG_UNSUPPORTED
               /\ cmds' = <<>>
               /\ vol' = vol
               /\ pool' = pool
       /\ (op' \in {"DeleteVol", "ResizeVol"} /\ flags' # {})
            => /\ ret' = -1
               /\ err' = VIR_ERR_INVALID_ARG
               /\ cmds' = <<>>
               /\ vol' = vol
               /\ pool' = pool]_vars

\* a CreateVol refused for its encryption
C8_Witness ==
    /\ op = "CreateVol"
    /\ vol.encryption
    /\ ret = -1
    /\ err = VIR_ERR_CONFIG_UNSUPPORTED
    /\ cmds = <<>>

\* C9: CreateVol without encryption runs vdi create and then the
\* single-volume vdi list of RefreshVol, whatever the create gave, and returns
\* the status of the create command.
C9_CreateThenRefresh ==
    [][(op' = "CreateVol" /\ ~vol.encryption)
          => /\ Len(cmds') = 2
             /\ cmds'[1].argv = VdiCreateArgv(pool, vol)
             /\ cmds'[2].argv = VdiListOneArgv(pool, vol)
             /\ ret' = cmds'[1].status]_vars

\* a create that failed, followed by a refresh that succeeded
C9_Witness ==
    /\ op = "CreateVol"
    /\ Len(cmds) = 2
    /\ cmds[1].status = -1
    /\ cmds[2].status = 0
    /\ vol.key # NullStr
    /\ ret = -1

\* the least element of a set of numbers
FirstOf(S) == CHOOSE i \in S : \A j \in S : i <= j

\* the starts of the lines of s that begin with "Total "
TotalLines(s) == {i \in LineStarts(s) : STRPREFIX(s, i, <<"T", "o", "t", "a", "l", " ">>)}

\* C10: a parser fails when the line it takes its values from is not
\* terminated by a newline: the first "Total " line for ParseNodeInfo, a
\* current-marked line for ParseVdiList, the first current-marked line for
\* ParseVdi.
C10_UnterminatedLineFails ==
    /\ (op = "ParseNodeInfo" /\ TotalLines(output) # {}
          /\ ~Terminated(output, FirstOf(TotalLines(output)))) => ret = -1
    /\ (op = "ParseVdiList" /\ \E i \in CurrentLines(output) : ~Terminated(output, i))
          => ret = -1
    /\ (op = "ParseVdi" /\ CurrentLines(output) # {}
          /\ ~Terminated(output, FirstOf(CurrentLines(output)))) => ret = -1

\* a volume list whose last, current-marked line is cut short after a full line
C10_Witness ==
    /\ op = "ParseVdiList"
    /\ output = VdiCurA \o VdiNoNl
    /\ ret = -1

\* the least element of S, or d when S is empty
LeastOr(S, d) == IF S = {} THEN d ELSE CHOOSE i \in S : \A j \in S : i <= j

\* the length of the run of backslashes that ends right before address i, in
\* a name that starts at st
BackslashRun(s, st, i) ==
    CHOOSE n \in 0..(i - st) :
        /\ \A j \in (i - n)..(i - 1) : At(s, j) = "\\"
        /\ n = i - st \/ At(s, i - n - 1) # "\\"

\* the byte at i is escaped: an odd number of backslashes stands before it
Escaped(s, st, i) == BackslashRun(s, st, i) % 2 = 1

\* where the name that starts at st ends: the first space that is not
\* escaped, or the end of the string
NameEnd(s, st) ==
    LeastOr({e \in st..Len(s) : s[e] = " " /\ ~Escaped(s, st, e)}, Len(s) + 1)

\* the same with "escaped" read as "the byte before it is a backslash"
NameEndNotAfterBackslash(s, st) ==
    LeastOr({e \in st..Len(s) : s[e] = " " /\ At(s, e - 1) # "\\"}, Len(s) + 1)

DigitChars == {"0", "1", "2", "3", "4", "5", "6", "7", "8", "9"}

\* the last address of the run of digits that starts at a (a - 1: no digit)
DigitRunEnd(s, a) == LeastOr({b \in (a - 1)..Len(s) : At(s, b + 1) \notin DigitChars}, Len(s))

\* the number written by the digits of s from a to b
RECURSIVE NumAt(_, _, _)
NumAt(s, a, b) == IF a > b THEN 0 ELSE NumAt(s, a, b - 1) * 10 + DigitVal[s[b]]

\* the three integers that follow, each after one space, the name ending at
\* e; ok tells whether the line has them
FieldsAfter(s, e) ==
    LET b1 == DigitRunEnd(s, e + 1)
        b2 == DigitRunEnd(s, b1 + 2)
        b3 == DigitRunEnd(s, b2 + 2)
    IN  IF /\ At(s, e) = " " /\ b1 >= e + 1
           /\ At(s, b1 + 1) = " " /\ b2 >= b1 + 2
           /\ At(s, b2 + 1) = " " /\ b3 >= b2 + 2
        THEN [ok |-> TRUE, capacity |-> NumAt(s, b1 + 2, b2),
              allocation |-> NumAt(s, b2 + 2, b3)]
        ELSE [ok |-> FALSE, capacity |-> 0, allocation |-> 0]

\* the record r is the one the line of s with its name at st and the end of
\* its name at e stands for, in the pool pl
RecordMatches(r, pl, s, st, e) ==
    LET nm == SubSeq(s, st, e - 1)
        f == FieldsAfter(s, e)
    IN  /\ r.name = nm
        /\ r.target = nm
        /\ r.key = pl.name \o <<"/">> \o nm
        /\ f.ok => (r.capacity = f.capacity /\ r.allocation = f.allocation)

RefreshFailed ==
    \/ op' = "RefreshVol" /\ ret' < 0
    \/ /\ op' = "CreateVol"
       /\ Len(cmds') = 2
       /\ cmds'[2].status < 0 \/ ParseVdi(vol, Mem(output', past')).ret < 0

\* C12: a refresh of a volume that fails, because the command fails or the
\* report has no current-marked line or a malformed field, leaves the
\* volume's capacity, allocation, target and key as they were before the
\* call; the same for the refresh CreateVol makes.
C12_FailedRefreshLeavesVolume ==
    [][RefreshFailed
          => /\ vol'.capacity = vol.capacity
             /\ vol'.allocation = vol.allocation
             /\ vol'.target = vol.target
             /\ vol'.key = vol.key]_vars

\* the first address from a on that holds no space
SkipSpaces(s, a) == LeastOr({b \in a..Len(s) : s[b] # " "}, Len(s) + 1)

\* the two integers, separated by spaces, that the line of s holds from
\* address a on; ok tells whether the line has them and both fit the type
TwoIntegers(s, a) ==
    LET a1 == SkipSpaces(s, a)
        b1 == DigitRunEnd(s, a1)
        a2 == SkipSpaces(s, b1 + 1)
        b2 == DigitRunEnd(s, a2)
    IN  IF /\ b1 >= a1 /\ a2 > b1 + 1 /\ b2 >= a2
           /\ NumAt(s, a1, b1) <= ULLONG_MAX /\ NumAt(s, a2, b2) <= ULLONG_MAX
        THEN [ok |-> TRUE, first |-> NumAt(s, a1, b1), second |-> NumAt(s, a2, b2)]
        ELSE [ok |-> FALSE, first |-> 0, second |-> 0]

\* C13: ParseNodeInfo fails when the report has no "Total " line and when the
\* first "Total " line does not itself hold two integers that fit an unsigned
\* long long; when it succeeds capacity and allocation are the first and the
\* second integer of that line.
C13_TotalsFromFirstTotalLine ==
    op = "ParseNodeInfo"
      => /\ TotalLines(output) = {} => ret = -1
         /\ TotalLines(output) # {}
              => LET f == TwoIntegers(output, FirstOf(TotalLines(output)) + 6)
                 IN  /\ ~f.ok => ret = -1
                     /\ ret = 0 => (pool.capacity = f.first /\ pool.allocation = f.second)

\* the current-marked line of s that starts at i holds its own name and,
\* each after one space as collie prints them, its three integers
OwnFields(s, i) ==
    LET e == NameEnd(s, i + 2)
    IN  /\ FieldsAfter(s, e).ok
        /\ \A j \in i..e : s[j] # "\n"

\* C14: in ParseVdiList and ParseVdi the scan cursor never goes beyond the
\* NUL that ends the report (the NUL of a report s is at address Len(s) + 1),
\* and a record is made only from a line that holds the name and the integers
\* itself: every record of ParseVdiList, and the volume ParseVdi fills when
\* it succeeds.
C14_ScanStaysInLine ==
    [][/\ op' \in {"ParseVdiList", "ParseVdi"} => hiaddr' <= Len(output) + 1
       /\ op' = "ParseVdiList"
            => LET new == NewRecords(pool.volumes, pool'.volumes)
               IN  \A k \in 1..Len(new) : OwnFields(output, Nth(CurrentLines(output), k))
       /\ (op' = "ParseVdi" /\ ret' = 0)
            => OwnFields(output, FirstOf(CurrentLines(output)))]_vars

====
